---------------------------- MODULE Spec2Model ----------------------------
(***************************************************************************)
(* The ownerState -> class-name -> slot -> final-props pipeline of the     *)
(* Joy UI components, modelled from                                        *)
(*   packages/mui-joy/src/FormControl/FormControl.tsx   (FormControl)      *)
(*   docs/pages/joy-ui/api/slider.json                  (Slider's tables)  *)
(*                                                                         *)
(* JavaScript values are records [t, b, s, n] (type tag, boolean, string   *)
(* and number payload), so that values of different JavaScript types can   *)
(* be compared.  A prop bag is a function from the keys it HAS to values:  *)
(* a missing key and a key present with the value undefined are distinct.  *)
(* Nested objects are flattened to dotted keys: the prop                   *)
(* classes = {disabled: "x"} is the key "classes.disabled", the prop       *)
(* slots = {root: C} is the key "slots.root".                              *)
(***************************************************************************)
EXTENDS Integers, Sequences, FiniteSets, TLC

VARIABLES
    theme,            \* ThemeDefaults: component name -> default prop bag
    inProps,          \* the props the caller passes to FormControl
    helperText,       \* FormControl's useState cell (line 102)
    rendered,         \* what the last FormControl render produced
    sliderOwnerState, \* the ownerState handed to Slider's class composer
    sliderClasses,    \* Slider's composed classes (slot -> tokens, class string)
    resolveName,      \* Theme Defaults Resolver: the component name
    resolveIn,        \*   the input prop bag
    resolveOut,       \*   <<>>, <<once>> or <<once, twice>>: the resolutions so far
    nodeEnv,          \* process.env.NODE_ENV
    registeredInput,  \* the registeredInput ref cells (line 119), one per instance
    active,           \* per instance, the children whose registration is not cleaned up
    lastCall          \* per instance, its most recent registerEffect or cleanup call

vars == <<theme, inProps, helperText, rendered, sliderOwnerState, sliderClasses,
          resolveName, resolveIn, resolveOut, nodeEnv, registeredInput, active, lastCall>>

\* The state of the child registrations.
effectVars == <<nodeEnv, registeredInput, active, lastCall>>

---------------------------------------------------------------------------
(* Bounds *)

\* The caller passes at most this many props to FormControl.
MaxProps == 3

\* A FormControl instance has at most this many children that register.
MaxChildren == 2

---------------------------------------------------------------------------
(* JavaScript values *)

Undefined == [t |-> "undefined", b |-> FALSE, s |-> "", n |-> 0]
Null == [t |-> "null", b |-> FALSE, s |-> "", n |-> 0]
Bool(x) == [t |-> "boolean", b |-> x, s |-> "", n |-> 0]
Str(x) == [t |-> "string", b |-> FALSE, s |-> x, n |-> 0]
Num(x) == [t |-> "number", b |-> FALSE, s |-> "", n |-> x]
Obj(x) == [t |-> "object", b |-> FALSE, s |-> x, n |-> 0]

\* JavaScript's ToBoolean.
Truthy(v) ==
    CASE v.t = "undefined" -> FALSE
      [] v.t = "null" -> FALSE
      [] v.t = "boolean" -> v.b
      [] v.t = "string" -> v.s # ""
      [] v.t = "number" -> v.n # 0
      [] OTHER -> TRUE

\* a && b
And(a, b) == IF Truthy(a) THEN b ELSE a

---------------------------------------------------------------------------
(* Prop bags (JavaScript objects) *)

EmptyBag == [k \in {} |-> Undefined]

\* obj[k]: undefined when the key is missing.
Get(bag, k) == IF k \in DOMAIN bag THEN bag[k] ELSE Undefined

\* {...a, ...b}: on a key of both, b wins.
Spread(a, b) ==
    [k \in DOMAIN a \cup DOMAIN b |-> IF k \in DOMAIN b THEN b[k] ELSE a[k]]

\* const {k1, k2, ...rest} = bag: rest.
Omit(bag, keys) == [k \in DOMAIN bag \ keys |-> bag[k]]

\* A default applied with || : to every falsy value.
DefaultFalsy(bag, k, d) == IF Truthy(Get(bag, k)) THEN Get(bag, k) ELSE d

\* const {k = d} = bag: the default applies to undefined (or missing) only.
Default(bag, k, d) == IF Get(bag, k) = Undefined THEN d ELSE Get(bag, k)

---------------------------------------------------------------------------
(* Strings *)

LowerCase == "abcdefghijklmnopqrstuvwxyz"
UpperCase == "ABCDEFGHIJKLMNOPQRSTUVWXYZ"

\* c.toUpperCase() of one character.
ToUpperCase(c) ==
    IF \E i \in 1..Len(LowerCase) : SubSeq(LowerCase, i, i) = c
    THEN LET i == CHOOSE j \in 1..Len(LowerCase) : SubSeq(LowerCase, j, j) = c
         IN  SubSeq(UpperCase, i, i)
    ELSE c

\* capitalize(string): string.charAt(0).toUpperCase() + string.slice(1)
Capitalize(s) ==
    IF s = "" THEN "" ELSE ToUpperCase(SubSeq(s, 1, 1)) \o SubSeq(s, 2, Len(s))

\* Whether string s starts with string p.
StartsWith(s, p) == Len(s) >= Len(p) /\ SubSeq(s, 1, Len(p)) = p

\* strs.join(' ')
RECURSIVE Join(_)
Join(strs) ==
    IF strs = <<>> THEN ""
    ELSE IF Len(strs) = 1 THEN strs[1]
    ELSE strs[1] \o " " \o Join(Tail(strs))

\* The class names of a class attribute: s.split(' ') without empty names.
\* A name starts after a space (or at the start) and ends before the next.
ClassList(s) ==
    LET spaces == {i \in 1..Len(s) : SubSeq(s, i, i) = " "}
        starts == {i \in 1..Len(s) : i \notin spaces /\ (i = 1 \/ (i - 1) \in spaces)}
        nth(i) == CHOOSE q \in starts : Cardinality({r \in starts : r < q}) = i - 1
        end(i) == LET later == {j \in spaces : j > i}
                  IN  IF later = {} THEN Len(s)
                      ELSE (CHOOSE j \in later : \A k \in later : j <= k) - 1
    IN  [i \in 1..Cardinality(starts) |-> SubSeq(s, nth(i), end(nth(i)))]

\* The elements of a sequence.
Range(seq) == {seq[i] : i \in DOMAIN seq}

\* clsx(a, b): the truthy strings among its arguments joined by a space.
RECURSIVE TruthyStrings(_)
TruthyStrings(vals) ==
    IF vals = <<>> THEN <<>>
    ELSE (IF Truthy(Head(vals)) /\ Head(vals).t = "string" THEN <<Head(vals).s>> ELSE <<>>)
         \o TruthyStrings(Tail(vals))

Clsx(a, b) == Join(TruthyStrings(<<a, b>>))


---------------------------------------------------------------------------
(* Theme Defaults Resolver (useThemeProps) *)

\* The theme's default props of FormControl and of Slider.
FormControlDefaults == ("size" :> Str("lg")) @@ ("disabled" :> Bool(TRUE))
SliderDefaults == ("color" :> Str("primary")) @@ ("size" :> Str("md"))

\* The ThemeDefaults tables the application may be initialised with: none
\* registered, or one with defaults for both components.
ThemeTables ==
    { [n \in {} |-> EmptyBag],
      ("JoyFormControl" :> FormControlDefaults) @@ ("JoySlider" :> SliderDefaults) }

\* A resolver that answers an unregistered name with no props at all.
ResolveThemeDefaultsDropsUnregistered(name, props) ==
    IF name \notin DOMAIN theme THEN EmptyBag
    ELSE LET defaults == theme[name]
         IN  [k \in DOMAIN props \cup DOMAIN defaults |->
                 IF Get(props, k) # Undefined THEN props[k]
                 ELSE IF k \in DOMAIN defaults THEN defaults[k]
                 ELSE props[k]]

\* resolve(name, inputProps): every default whose key is missing from, or
\* undefined in, inputProps is injected; an unregistered name returns
\* inputProps unchanged.
ResolveThemeDefaults(name, props) ==
    IF name \notin DOMAIN theme THEN props
    ELSE LET defaults == theme[name]
         IN  [k \in DOMAIN props \cup DOMAIN defaults |->
                 IF Get(props, k) # Undefined THEN props[k]
                 ELSE IF k \in DOMAIN defaults THEN defaults[k]
                 ELSE props[k]]

---------------------------------------------------------------------------
(* Utility Class Composer *)

\* The table without its entry for "disabled".
GlobalClassesFocusVisibleOnly == "focusVisible" :> "Mui-focusVisible"

\* The tokens that have a global class name (slider.json, globalClasses).
GlobalClasses == ("disabled" :> "Mui-disabled") @@ ("focusVisible" :> "Mui-focusVisible")

\* generateUtilityClass(componentName, slot)
GenerateUtilityClass(componentName, slot) ==
    IF slot \in DOMAIN GlobalClasses THEN GlobalClasses[slot]
    ELSE componentName \o "-" \o slot

\* getFormControlUtilityClass(slot)
GetFormControlUtilityClass(slot) == GenerateUtilityClass("MuiFormControl", slot)

\* The tokens of one slot: composeClasses skips the falsy entries (if (key)).
RECURSIVE Tokens(_)
Tokens(slot) ==
    IF slot = <<>> THEN <<>>
    ELSE (IF Truthy(Head(slot)) THEN <<Head(slot).s>> ELSE <<>>) \o Tokens(Tail(slot))

\* composeClasses for one slot: each token's class name, followed by the
\* caller's class name for that token when classes has one; joined by ' '.
RECURSIVE ComposeNames(_, _, _)
ComposeNames(tokens, componentName, classes) ==
    IF tokens = <<>> THEN <<>>
    ELSE <<GenerateUtilityClass(componentName, Head(tokens))>>
         \o (IF Truthy(Get(classes, Head(tokens))) THEN <<Get(classes, Head(tokens)).s>> ELSE <<>>)
         \o ComposeNames(Tail(tokens), componentName, classes)

ComposeClasses(slot, componentName, classes) ==
    Join(ComposeNames(Tokens(slot), componentName, classes))

\* useUtilityClasses with the enum dimensions tested against undefined instead
\* of for truthiness.
FormControlSlotsDefinedCheck(ownerState) ==
    LET disabled == Get(ownerState, "disabled")
        error == Get(ownerState, "error")
        size == Get(ownerState, "size")
        color == Get(ownerState, "color")
        orientation == Get(ownerState, "orientation")
    IN  [root |-> << Str("root"),
                     orientation,
                     And(disabled, Str("disabled")),
                     And(error, Str("error")),
                     And(Bool(color # Undefined), Str("color" \o Capitalize(color.s))),
                     And(Bool(size # Undefined), Str("size" \o Capitalize(size.s))) >>]

\* useUtilityClasses with the boolean dimensions tested against undefined
\* instead of for truthiness.
FormControlSlotsFlagDefined(ownerState) ==
    LET disabled == Get(ownerState, "disabled")
        error == Get(ownerState, "error")
        size == Get(ownerState, "size")
        color == Get(ownerState, "color")
        orientation == Get(ownerState, "orientation")
    IN  [root |-> << Str("root"),
                     orientation,
                     And(Bool(disabled # Undefined), Str("disabled")),
                     And(Bool(error # Undefined), Str("error")),
                     And(color, Str("color" \o Capitalize(color.s))),
                     And(size, Str("size" \o Capitalize(size.s))) >>]

\* FormControl.tsx, useUtilityClasses: the slots object.
FormControlSlots(ownerState) ==
    LET disabled == Get(ownerState, "disabled")
        error == Get(ownerState, "error")
        size == Get(ownerState, "size")
        color == Get(ownerState, "color")
        orientation == Get(ownerState, "orientation")
    IN  [root |-> << Str("root"),
                     orientation,
                     And(disabled, Str("disabled")),
                     And(error, Str("error")),
                     And(color, Str("color" \o Capitalize(color.s))),
                     And(size, Str("size" \o Capitalize(size.s))) >>]

\* useUtilityClasses handing the caller's classes prop to composeClasses.
UtilityClassOverridesFromProps(ownerState) ==
    [token \in {SubSeq(k, 9, Len(k)) : k \in {j \in DOMAIN ownerState : StartsWith(j, "classes.")}}
        |-> ownerState["classes." \o token]]

\* The override table useUtilityClasses hands to composeClasses: {}.
UtilityClassOverrides(ownerState) == EmptyBag

\* FormControl.tsx, useUtilityClasses.
UseUtilityClasses(ownerState) ==
    [root |-> ComposeClasses(FormControlSlots(ownerState).root, "MuiFormControl",
                             UtilityClassOverrides(ownerState))]

---------------------------------------------------------------------------
(* Slider's class composer *)

\* slider.json, "slots": the slots that have a class (input has none).
SliderSlotClasses ==
    {"root", "track", "rail", "thumb", "mark", "markLabel", "valueLabel"}

\* slider.json, "classes": the registered class keys.
SliderClassKeys ==
    {"colorContext", "colorDanger", "colorInfo", "colorNeutral", "colorPrimary",
     "colorSuccess", "colorWarning", "disabled", "dragging", "focusVisible", "markActive",
     "marked", "sizeLg", "sizeMd", "sizeSm", "trackFalse", "trackInverted",
     "valueLabelOpen", "variantOutlined", "variantPlain", "variantSoft", "variantSolid",
     "vertical"}

\* Whether Slider's naming function maps the token to a class.
SliderMapped(token) == token \in SliderSlotClasses \cup SliderClassKeys

\* getSliderUtilityClass(token), for a mapped token.
GetSliderUtilityClass(token) == GenerateUtilityClass("MuiSlider", token)

\* The class names of a token list: an unmapped token produces no class.
RECURSIVE SliderClassNames(_)
SliderClassNames(tokens) ==
    IF tokens = <<>> THEN <<>>
    ELSE (IF SliderMapped(Head(tokens)) THEN <<GetSliderUtilityClass(Head(tokens))>> ELSE <<>>)
         \o SliderClassNames(Tail(tokens))

\* The track dimension under the general boolean rule: false emits nothing.
SliderTrackVariantBooleanRule(track) ==
    IF track = Str("inverted") THEN Str("trackInverted") ELSE Bool(FALSE)

\* The track dimension's token: 'trackInverted' for "inverted", 'trackFalse' for
\* the literal false, none for "normal".
SliderTrackVariant(track) ==
    IF track = Str("inverted") THEN Str("trackInverted")
    ELSE IF track = Bool(FALSE) THEN Str("trackFalse")
    ELSE Bool(FALSE)

\* Slider's slots object: the root slot's dimensions in the order of the
\* composer's scenario, the track slot with the tri-state track dimension.
SliderSlots(ownerState) ==
    LET disabled == Get(ownerState, "disabled")
        focusVisible == Get(ownerState, "focusVisible")
        size == Get(ownerState, "size")
        color == Get(ownerState, "color")
        orientation == Get(ownerState, "orientation")
    IN  [root |-> << Str("root"),
                     orientation,
                     And(size, Str("size" \o Capitalize(size.s))),
                     And(color, Str("color" \o Capitalize(color.s))),
                     And(disabled, Str("disabled")),
                     And(focusVisible, Str("focusVisible")) >>,
         track |-> << Str("track"), SliderTrackVariant(Get(ownerState, "track")) >>]

\* Slider's useUtilityClasses: per slot, the tokens and the class string.
SliderUtilityClasses(ownerState) ==
    LET slots == SliderSlots(ownerState)
    IN  [root |-> Tokens(slots.root),
         track |-> Tokens(slots.track),
         rootClass |-> Join(SliderClassNames(Tokens(slots.root))),
         trackClass |-> Join(SliderClassNames(Tokens(slots.track)))]

---------------------------------------------------------------------------
(* Slot Resolver (useSlot) *)

\* The keys of a prop bag that carry slot overrides, not props of the element.
SlotOverrideKeys(bag) == {k \in DOMAIN bag : StartsWith(k, "slots.")}

\* resolve(slotName, config): the render target is the caller's override for
\* this exact slot name when there is one, the config's elementType otherwise;
\* the final props are the externally forwarded props, then the computed
\* className (internal names first, then an external className), ownerState
\* and ref.
UseSlot(name, config) ==
    LET external == config.externalForwardedProps
        override == Get(external, "slots." \o name)
    IN  [name |-> name,
         elementType |-> IF Truthy(override) THEN override ELSE config.elementType,
         props |-> Omit(external, SlotOverrideKeys(external) \cup {"className"}),
         className |-> Clsx(Str(config.className), Get(external, "className")),
         ownerState |-> config.ownerState,
         ref |-> config.ref]

---------------------------------------------------------------------------
(* FormControl *)

\* The styled root element of FormControl (line 30).
FormControlRoot == Str("FormControlRoot")

\* The ref React.forwardRef hands to the render function.
ForwardedRef == Obj("forwardedRef")

\* The id useId generates for this instance when the caller passes none.
GeneratedId == Str("mui-1")

\* useId(idOverride): the caller's id when it passes one, a generated id otherwise.
UseId(idOverride) == IF idOverride = Undefined \/ idOverride = Null THEN GeneratedId ELSE idOverride

\* The props FormControl destructures by name; the others are `other`.
NamedProps ==
    {"id", "className", "component", "disabled", "required", "error", "color", "size",
     "orientation"}

\* The ownerState object with the props spread last: the raw props win.
OwnerStatePropsLast(props, id, component, color, disabled, error, required, size, orientation) ==
    Spread(("id" :> id) @@ ("component" :> component) @@ ("color" :> color)
           @@ ("disabled" :> disabled) @@ ("error" :> error) @@ ("required" :> required)
           @@ ("size" :> size) @@ ("orientation" :> orientation),
           props)

\* FormControl.tsx, lines 104-114: the ownerState object.
OwnerState(props, id, component, color, disabled, error, required, size, orientation) ==
    Spread(props,
           ("id" :> id) @@ ("component" :> component) @@ ("color" :> color)
           @@ ("disabled" :> disabled) @@ ("error" :> error) @@ ("required" :> required)
           @@ ("size" :> size) @@ ("orientation" :> orientation))

\* The caller's className replacing the internal names: className || classes.root.
RootClassNameReplaced(classes, className) ==
    IF Truthy(className) THEN className.s ELSE classes.root

\* FormControl.tsx, line 141: the className of the root slot's config.
RootClassName(classes, className) == Clsx(Str(classes.root), className)

\* The config of useSlot('root', ...) without the ref.
RootSlotConfigNoRef(ref, classes, className, other, component, ownerState) ==
    [ref |-> Undefined,
     className |-> RootClassName(classes, className),
     elementType |-> FormControlRoot,
     externalForwardedProps |-> Spread(other, "component" :> component),
     ownerState |-> ownerState]

\* FormControl.tsx, lines 139-145: the config of useSlot('root', ...).
RootSlotConfig(ref, classes, className, other, component, ownerState) ==
    [ref |-> ref,
     className |-> RootClassName(classes, className),
     elementType |-> FormControlRoot,
     externalForwardedProps |-> Spread(other, "component" :> component),
     ownerState |-> ownerState]

\* The context value with aria-describedby set whether or not there is a
\* helper text element.
FormControlContextValueAlwaysDescribed(disabled, required, error, color, size, id, helper) ==
    ("disabled" :> disabled) @@ ("required" :> required) @@ ("error" :> error)
    @@ ("color" :> color) @@ ("size" :> size) @@ ("htmlFor" :> id)
    @@ ("labelId" :> Str(id.s \o "-label"))
    @@ ("aria-describedby" :> Str(id.s \o "-helper-text"))

\* FormControl.tsx, lines 147-161: the context value (setHelperText and
\* registerEffect, its two functions, are actions of the model).
FormControlContextValue(disabled, required, error, color, size, id, helper) ==
    ("disabled" :> disabled) @@ ("required" :> required) @@ ("error" :> error)
    @@ ("color" :> color) @@ ("size" :> size) @@ ("htmlFor" :> id)
    @@ ("labelId" :> Str(id.s \o "-label"))
    @@ ("aria-describedby" :> IF Truthy(helper) THEN Str(id.s \o "-helper-text") ELSE Undefined)

\* FormControl.tsx, lines 82-168: one render of FormControl.
FormControl(inP, ref, helper) ==
    LET props == ResolveThemeDefaults("JoyFormControl", inP)
        idOverride == Get(props, "id")
        className == Get(props, "className")
        component == Default(props, "component", Str("div"))
        disabled == Default(props, "disabled", Bool(FALSE))
        required == Default(props, "required", Bool(FALSE))
        error == Default(props, "error", Bool(FALSE))
        color == Get(props, "color")
        size == Default(props, "size", Str("md"))
        orientation == Default(props, "orientation", Str("vertical"))
        other == Omit(props, NamedProps)
        id == UseId(idOverride)
        ownerState == OwnerState(props, id, component, color, disabled, error, required,
                                 size, orientation)
        classes == UseUtilityClasses(ownerState)
        config == RootSlotConfig(ref, classes, className, other, component, ownerState)
        root == UseSlot("root", config)
    IN  [props |-> props,
         ownerState |-> ownerState,
         tokens |-> [root |-> Tokens(FormControlSlots(ownerState).root)],
         classes |-> classes,
         slotConfigs |-> <<config>>,
         slots |-> <<root>>,
         contextValue |-> FormControlContextValue(disabled, required, error, color, size,
                                                  id, helper)]

\* The props a caller may pass, and the values of each.
PropValues ==
    [id |-> {Str("fc")},
     className |-> {Str(""), Str("mt-2")},
     component |-> {Str("section")},
     disabled |-> {Undefined, Bool(FALSE), Bool(TRUE)},
     required |-> {Bool(FALSE), Bool(TRUE)},
     error |-> {Bool(FALSE), Bool(TRUE)},
     color |-> {Str(""), Str("primary"), Str("danger")},
     size |-> {Undefined, Str(""), Num(0), Str("sm"), Str("lg")},
     orientation |-> {Str("horizontal"), Str("vertical")}]
    @@ ("classes.root" :> {Str("my-root")})
    @@ ("classes.disabled" :> {Str("my-disabled")})
    @@ ("slots.root" :> {Str("CustomRoot")})
    @@ ("slots.input" :> {Str("CustomInput")})

\* The values setHelperText is called with: the helper text element, or null.
HelperTextElements == {Null, Obj("helperTextElement")}

\* Slider's classes before its first render.
NoSlider == [root |-> <<>>, track |-> <<>>, rootClass |-> "", trackClass |-> ""]

\* The ownerStates Slider's composer is given.
SliderOwnerStates ==
    [orientation : {Str("horizontal"), Str("vertical")},
     size : {Undefined, Str("sm"), Str("lg")},
     color : {Undefined, Str(""), Str("primary")},
     disabled : {Bool(FALSE), Bool(TRUE)},
     track : {Str("normal"), Str("inverted"), Bool(FALSE)},
     focusVisible : {Bool(FALSE), Bool(TRUE)}]

\* The component names and prop bags the Theme Defaults Resolver is given.
ResolveNames == {"JoyFormControl", "JoySlider", "JoyUnregistered"}

ResolveValues ==
    [size |-> {Undefined, Str(""), Str("sm")},
     disabled |-> {Undefined, Bool(FALSE), Bool(TRUE)},
     color |-> {Str("danger")}]

ResolveBags ==
    {bag \in UNION {[keys -> UNION Range(ResolveValues)] : keys \in SUBSET DOMAIN ResolveValues} :
        \A k \in DOMAIN bag : bag[k] \in ResolveValues[k]}

\* FormControl is mounted without props.
InitFormControl ==
    /\ inProps = EmptyBag
    /\ helperText = Null
    /\ rendered = FormControl(inProps, ForwardedRef, helperText)

InitSlider ==
    /\ sliderOwnerState = EmptyBag
    /\ sliderClasses = NoSlider

InitResolve ==
    /\ resolveName = ""
    /\ resolveIn = EmptyBag
    /\ resolveOut = <<>>

\* The FormControl instances: the one whose renders the model follows, and a
\* second one mounted beside it, of which only the registrations are followed.
Instances == {"first", "second"}

\* The children of an instance that call registerEffect (Input, Textarea, Select).
Children == 1..MaxChildren

\* No call yet.
NoCall == [kind |-> "none", diagnostic |-> FALSE, threw |-> FALSE, cleanup |-> FALSE]

\* Nothing is registered: useRef(false).
InitEffects ==
    /\ registeredInput = [i \in Instances |-> FALSE]
    /\ active = [i \in Instances |-> {}]
    /\ lastCall = [i \in Instances |-> NoCall]

Init ==
    /\ theme \in ThemeTables
    /\ InitFormControl
    /\ InitSlider
    /\ InitResolve
    /\ nodeEnv = "development"
    /\ InitEffects

\* The parent renders FormControl again with the prop k set to v.
Render(k, v) ==
    /\ Cardinality(DOMAIN inProps \cup {k}) <= MaxProps
    /\ inProps' = Spread(inProps, k :> v)
    /\ rendered' = FormControl(inProps', ForwardedRef, helperText)
    /\ UNCHANGED <<theme, helperText, sliderOwnerState, sliderClasses,
                   resolveName, resolveIn, resolveOut>>
    /\ UNCHANGED effectVars

\* The parent renders FormControl again without the prop k.
RenderWithout(k) ==
    /\ k \in DOMAIN inProps
    /\ inProps' = Omit(inProps, {k})
    /\ rendered' = FormControl(inProps', ForwardedRef, helperText)
    /\ UNCHANGED <<theme, helperText, sliderOwnerState, sliderClasses,
                   resolveName, resolveIn, resolveOut>>
    /\ UNCHANGED effectVars

\* A descendant calls the context's setHelperText(el): the state changes and
\* FormControl renders again.
SetHelperText(el) ==
    /\ el # helperText
    /\ helperText' = el
    /\ rendered' = FormControl(inProps, ForwardedRef, el)
    /\ UNCHANGED <<theme, inProps, sliderOwnerState, sliderClasses,
                   resolveName, resolveIn, resolveOut>>
    /\ UNCHANGED effectVars

Next ==
    \/ \E k \in DOMAIN PropValues : \E v \in PropValues[k] : Render(k, v)
    \/ \E k \in DOMAIN PropValues : RenderWithout(k)
    \/ \E el \in HelperTextElements : SetHelperText(el)

Spec == Init /\ [][Next]_vars

---------------------------------------------------------------------------
(* Slider's class composer applied to every ownerState *)

SliderInit ==
    /\ theme \in ThemeTables
    /\ InitFormControl
    /\ sliderOwnerState \in SliderOwnerStates
    /\ sliderClasses = NoSlider
    /\ InitResolve
    /\ nodeEnv = "development"
    /\ InitEffects

\* Slider renders: its classes are composed from its ownerState.
RenderSlider ==
    /\ sliderClasses = NoSlider
    /\ sliderClasses' = SliderUtilityClasses(sliderOwnerState)
    /\ UNCHANGED <<theme, inProps, helperText, rendered, sliderOwnerState,
                   resolveName, resolveIn, resolveOut>>
    /\ UNCHANGED effectVars

SliderSpec == SliderInit /\ [][RenderSlider]_vars

---------------------------------------------------------------------------
(* The Theme Defaults Resolver applied to every name and prop bag *)

ResolveInit ==
    /\ theme \in ThemeTables
    /\ InitFormControl
    /\ InitSlider
    /\ resolveName \in ResolveNames
    /\ resolveIn \in ResolveBags
    /\ resolveOut = <<>>
    /\ nodeEnv = "development"
    /\ InitEffects

\* The props are resolved.
Resolve ==
    /\ resolveOut = <<>>
    /\ resolveOut' = <<ResolveThemeDefaults(resolveName, resolveIn)>>
    /\ UNCHANGED <<theme, inProps, helperText, rendered, sliderOwnerState, sliderClasses,
                   resolveName, resolveIn>>
    /\ UNCHANGED effectVars

\* The resolved props are resolved again.
ResolveAgain ==
    /\ Len(resolveOut) = 1
    /\ resolveOut' = Append(resolveOut, ResolveThemeDefaults(resolveName, resolveOut[1]))
    /\ UNCHANGED <<theme, inProps, helperText, rendered, sliderOwnerState, sliderClasses,
                   resolveName, resolveIn>>
    /\ UNCHANGED effectVars

ResolveNext == Resolve \/ ResolveAgain

ResolveSpec == ResolveInit /\ [][ResolveNext]_vars

---------------------------------------------------------------------------
(* Child registration: registerEffect and its cleanup *)

\* One cell shared by every instance: a module-level variable instead of useRef.
FlagCellShared(instance) == "first"

\* The ref cell an instance's registerEffect and cleanups use: its own
\* (useRef, line 119).
FlagCell(instance) == instance

\* registerEffect throwing on a conflict instead of reporting it.
RegisterEffectCallThrows(flag) ==
    [diagnostic |-> FALSE, registeredInput |-> TRUE, threw |-> flag, cleanup |-> ~flag]

\* FormControl.tsx, lines 120-134: one call of registerEffect that finds the
\* flag with the value `flag`: whether it emits the diagnostic, the flag it
\* leaves, whether it throws, whether it returns a cleanup.
RegisterEffectCall(flag) ==
    [diagnostic |-> flag, registeredInput |-> TRUE, threw |-> FALSE, cleanup |-> TRUE]

\* FormControl.tsx, lines 131-133: the flag a cleanup leaves.
CleanupCall(flag) == FALSE

\* The props FormControl is mounted with while its children register.
EffectProps ==
    { EmptyBag,
      ("id" :> Str("fc")) @@ ("disabled" :> Bool(TRUE)) @@ ("className" :> Str("mt-2")) }

EffectInit ==
    /\ theme \in ThemeTables
    /\ inProps \in EffectProps
    /\ helperText = Null
    /\ rendered = FormControl(inProps, ForwardedRef, helperText)
    /\ InitSlider
    /\ InitResolve
    /\ nodeEnv \in {"development", "production"}
    /\ InitEffects

\* Child c of instance i calls the context's registerEffect (in its effect);
\* outside production only (line 117).  Writing the ref renders nothing.
RegisterEffect(i, c) ==
    /\ nodeEnv # "production"
    /\ c \notin active[i]
    /\ LET call == RegisterEffectCall(registeredInput[FlagCell(i)])
       IN  /\ registeredInput' = [registeredInput EXCEPT ![FlagCell(i)] = call.registeredInput]
           /\ active' = [active EXCEPT ![i] = IF call.cleanup THEN @ \cup {c} ELSE @]
           /\ lastCall' = [lastCall EXCEPT ![i] =
                             [kind |-> "register", diagnostic |-> call.diagnostic,
                              threw |-> call.threw, cleanup |-> call.cleanup]]
    /\ UNCHANGED <<theme, inProps, helperText, rendered, sliderOwnerState, sliderClasses,
                   resolveName, resolveIn, resolveOut, nodeEnv>>

\* The cleanup registerEffect returned to child c of instance i runs.
Cleanup(i, c) ==
    /\ c \in active[i]
    /\ registeredInput' = [registeredInput EXCEPT
                             ![FlagCell(i)] = CleanupCall(registeredInput[FlagCell(i)])]
    /\ active' = [active EXCEPT ![i] = @ \ {c}]
    /\ lastCall' = [lastCall EXCEPT ![i] =
                      [kind |-> "cleanup", diagnostic |-> FALSE, threw |-> FALSE,
                       cleanup |-> FALSE]]
    /\ UNCHANGED <<theme, inProps, helperText, rendered, sliderOwnerState, sliderClasses,
                   resolveName, resolveIn, resolveOut, nodeEnv>>

EffectNext ==
    \/ \E i \in Instances : \E c \in Children : RegisterEffect(i, c)
    \/ \E i \in Instances : \E c \in Children : Cleanup(i, c)
    \/ \E el \in HelperTextElements : SetHelperText(el)

EffectSpec == EffectInit /\ [][EffectNext]_vars

---------------------------------------------------------------------------
(* Properties of FormControl's class composer *)

\* A non-empty string: what an enum dimension needs to emit a token.
NonEmpty(v) == v.t = "string" /\ v.s # ""

\* The number of tokens a dimension contributes.
Count(b) == IF b THEN 1 ELSE 0

\* The tokens of a list that start with a prefix.
WithPrefix(tokens, prefix) == {t \in Range(tokens) : StartsWith(t, prefix)}

\* C1: the root slot's tokens contain "color" + Capitalize(color) if and only
\* if color is a non-empty string, and "size" + Capitalize(size) if and only if
\* size is one; an absent or empty value emits no token of that dimension.
\* With orientation "horizontal", size "sm" and no color the tokens include
\* "horizontal" and "sizeSm" and none that begins with "color".
C1_EnumTokens ==
    LET os == rendered.ownerState
        tokens == rendered.tokens.root
        color == os["color"]
        size == os["size"]
    IN  /\ WithPrefix(tokens, "color") =
             IF NonEmpty(color) THEN {"color" \o Capitalize(color.s)} ELSE {}
        /\ WithPrefix(tokens, "size") =
             IF NonEmpty(size) THEN {"size" \o Capitalize(size.s)} ELSE {}
        /\ (os["orientation"] = Str("horizontal") /\ size = Str("sm") /\ color = Undefined)
             => /\ "horizontal" \in Range(tokens)
                /\ "sizeSm" \in Range(tokens)
                /\ WithPrefix(tokens, "color") = {}

\* FormControl rendered with {orientation: "horizontal", size: "sm"} and no color.
C1_Witness ==
    /\ inProps = ("orientation" :> Str("horizontal")) @@ ("size" :> Str("sm"))
    /\ rendered.ownerState["color"] = Undefined
    /\ {"horizontal", "sizeSm"} \subseteq Range(rendered.tokens.root)

\* C2: the root slot's tokens contain "disabled" if and only if
\* ownerState.disabled is true and "error" if and only if ownerState.error is
\* true; a false boolean dimension contributes no token at all, so the list
\* holds "root", the orientation and one token per true flag and per non-empty
\* enum value, and nothing else.
C2_BooleanTokens ==
    LET os == rendered.ownerState
        tokens == rendered.tokens.root
    IN  /\ ("disabled" \in Range(tokens)) <=> (os["disabled"] = Bool(TRUE))
        /\ ("error" \in Range(tokens)) <=> (os["error"] = Bool(TRUE))
        /\ Len(tokens) = 2 + Count(os["disabled"] = Bool(TRUE)) + Count(os["error"] = Bool(TRUE))
                           + Count(NonEmpty(os["color"])) + Count(NonEmpty(os["size"]))

\* FormControl rendered with an explicit disabled = false and error = true.
C2_Witness ==
    /\ "disabled" \in DOMAIN inProps /\ inProps["disabled"] = Bool(FALSE)
    /\ "error" \in DOMAIN inProps /\ inProps["error"] = Bool(TRUE)
    /\ "error" \in Range(rendered.tokens.root)
    /\ "disabled" \notin Range(rendered.tokens.root)

\* The caller's override class names, by token: the classes prop.
CallerClasses(props) ==
    [token \in {SubSeq(k, 9, Len(k)) : k \in {j \in DOMAIN props : StartsWith(j, "classes.")}}
        |-> props["classes." \o token]]

\* Whether name b directly follows name a in a class list.
Follows(list, a, b) == \E i \in 1..(Len(list) - 1) : list[i] = a /\ list[i + 1] = b

\* The internal class names of a token list.
InternalNames(tokens) == [i \in DOMAIN tokens |-> GetFormControlUtilityClass(tokens[i])]

\* C3 as stated: for every token of the root slot the caller supplies an
\* override class name for, the root class string contains the internal class
\* name and, after it, the caller's override name.
C3_OverrideAppended ==
    LET overrides == CallerClasses(rendered.props)
        names == ClassList(rendered.classes.root)
    IN  \A token \in DOMAIN overrides \cap Range(rendered.tokens.root) :
            Follows(names, GetFormControlUtilityClass(token), overrides[token].s)

\* C3, amended: useUtilityClasses hands composeClasses an empty override
\* table, so the root class string is exactly the internal class names of the
\* root slot's tokens, in token order; no internal name is replaced, and a
\* class name the caller supplies in classes is not added.
C3_InternalNamesOnly ==
    LET overrides == CallerClasses(rendered.props)
        names == ClassList(rendered.classes.root)
    IN  /\ names = InternalNames(rendered.tokens.root)
        /\ \A token \in DOMAIN overrides : overrides[token].s \notin Range(names)

\* FormControl rendered disabled, with the caller's class name for "disabled".
C3_Witness ==
    /\ "classes.disabled" \in DOMAIN inProps
    /\ "disabled" \in Range(rendered.tokens.root)
    /\ "Mui-disabled" \in Range(ClassList(rendered.classes.root))
    /\ "my-disabled" \notin Range(ClassList(rendered.classes.root))

---------------------------------------------------------------------------
(* Properties of Slider's class composer *)

\* The scenario's Slider: vertical, large, primary, disabled.
SliderScenario ==
    [orientation |-> Str("vertical"), size |-> Str("lg"), color |-> Str("primary"),
     disabled |-> Bool(TRUE), track |-> Str("normal"), focusVisible |-> Bool(FALSE)]

\* The class name the naming convention gives a token: the global name for
\* "disabled" and "focusVisible", the component prefix and the token otherwise.
ExpectedSliderClass(token) ==
    IF token \in {"disabled", "focusVisible"} THEN "Mui-" \o token ELSE "MuiSlider-" \o token

C5_TrackTokens ==
    sliderClasses # NoSlider =>
        LET track == sliderOwnerState["track"]
            tokens == sliderClasses.track
        IN  /\ track = Bool(FALSE) => tokens = <<"track", "trackFalse">>
            /\ track = Str("inverted") => tokens = <<"track", "trackInverted">>
            /\ track = Str("normal") => tokens = <<"track">>

\* A Slider with track = false has rendered.
C5_Witness ==
    /\ sliderOwnerState["track"] = Bool(FALSE)
    /\ "trackFalse" \in Range(sliderClasses.track)

---------------------------------------------------------------------------
(* Properties of the defaults and of the ownerState *)

\* The defaults FormControl gives its own props.
HardDefaults ==
    [disabled |-> Bool(FALSE), required |-> Bool(FALSE), error |-> Bool(FALSE),
     size |-> Str("md"), orientation |-> Str("vertical"), component |-> Str("div")]

\* The theme's default of a FormControl prop, undefined when it has none.
ThemeDefault(k) ==
    IF "JoyFormControl" \in DOMAIN theme THEN Get(theme["JoyFormControl"], k) ELSE Undefined

\* C6: a prop is replaced by a default only when its key is missing or its
\* value is undefined: a value the caller passes that is not undefined (false,
\* 0 and the empty string included) is the resolved prop and the ownerState's
\* value; a missing or undefined prop takes the theme's default when there is
\* one, and otherwise disabled, required and error become false, size "md",
\* orientation "vertical" and component "div".
C6_DefaultsOnlyForUndefined ==
    \A k \in DOMAIN HardDefaults :
        LET passed == Get(inProps, k)
            resolved == Get(rendered.props, k)
            final == rendered.ownerState[k]
        IN  /\ passed # Undefined => resolved = passed /\ final = passed
            /\ passed = Undefined =>
                 final = IF ThemeDefault(k) # Undefined THEN ThemeDefault(k) ELSE HardDefaults[k]
            /\ final = IF resolved = Undefined THEN HardDefaults[k] ELSE resolved

\* The caller passes disabled = false against a theme default of true, and an
\* explicit 0 or empty string for size: both reach the ownerState.
C6_Witness ==
    /\ ThemeDefault("disabled") = Bool(TRUE)
    /\ Get(inProps, "disabled") = Bool(FALSE)
    /\ Get(inProps, "size") \in {Num(0), Str("")}
    /\ rendered.ownerState["disabled"] = Bool(FALSE)
    /\ rendered.ownerState["size"] = inProps["size"]
    /\ rendered.ownerState["orientation"] = Str("vertical")

\* C7: resolving the defaults of already resolved props returns the same
\* props, and an unregistered name returns its input unchanged.
C7_ResolveIdempotent ==
    /\ Len(resolveOut) = 2 => resolveOut[2] = resolveOut[1]
    /\ (Len(resolveOut) >= 1 /\ resolveName \notin DOMAIN theme) => resolveOut[1] = resolveIn

\* The props were resolved twice, and the first resolution injected a default.
C7_Witness ==
    /\ Len(resolveOut) = 2
    /\ resolveOut[1] # resolveIn

\* The keys FormControl sets in the ownerState after the props.
InternalKeys ==
    {"id", "component", "color", "disabled", "error", "required", "size", "orientation"}

\* The keys useUtilityClasses reads.
ComposerKeys == {"disabled", "error", "size", "color", "orientation"}

\* C8: the ownerState has the keys of the resolved props and the internal
\* keys; a key of the props alone keeps the prop's value, and on a key of both
\* the internal value wins: id is the id useId derives (the caller's when it
\* passes one, the generated one otherwise), color the prop, and disabled,
\* error, required, size, orientation and component the defaulted values.  The
\* keys the class composer reads are keys of the ownerState even when their
\* value is undefined.
C8_OwnerStateMerge ==
    LET props == rendered.props
        os == rendered.ownerState
    IN  /\ DOMAIN os = DOMAIN props \cup InternalKeys
        /\ \A k \in DOMAIN props \ InternalKeys : os[k] = props[k]
        /\ os["id"] = IF Get(props, "id") = Undefined THEN GeneratedId ELSE props["id"]
        /\ os["color"] = Get(props, "color")
        /\ \A k \in DOMAIN HardDefaults :
              os[k] = IF Get(props, k) = Undefined THEN HardDefaults[k] ELSE props[k]
        /\ ComposerKeys \subseteq DOMAIN os

\* The props hold size with the value undefined and neither color nor id: the
\* ownerState's size is the default, its id the derived one, and color is a
\* key of it.
C8_Witness ==
    /\ "size" \in DOMAIN rendered.props
    /\ rendered.props["size"] = Undefined
    /\ rendered.ownerState["size"] = Str("md")
    /\ {"color", "id"} \cap DOMAIN rendered.props = {}
    /\ "color" \in DOMAIN rendered.ownerState
    /\ rendered.ownerState["id"] = GeneratedId

---------------------------------------------------------------------------
(* Properties of the slot resolver *)

\* The class names of a className prop: none unless it is a non-empty string.
CallerClassNames(className) == IF NonEmpty(className) THEN ClassList(className.s) ELSE <<>>

\* C9: the className of the root slot's config, and of the resolved root
\* slot, is the internal class names followed by the caller's className; no
\* internal name is replaced or removed, and without a caller className it is
\* exactly the internal names.
C9_ClassNameConcatenated ==
    LET internal == ClassList(rendered.classes.root)
        caller == Get(rendered.props, "className")
    IN  /\ ClassList(rendered.slotConfigs[1].className) = internal \o CallerClassNames(caller)
        /\ ClassList(rendered.slots[1].className) = internal \o CallerClassNames(caller)
        /\ ~NonEmpty(caller) => rendered.slots[1].className = rendered.classes.root

\* The caller passes a className: it follows the internal names.
C9_Witness ==
    /\ Get(inProps, "className") = Str("mt-2")
    /\ LET names == ClassList(rendered.slots[1].className)
       IN  /\ names[1] = "MuiFormControl-root"
           /\ names[Len(names)] = "mt-2"

\* The resolved slots that receive the forwarded ref.
RefTargets == {i \in DOMAIN rendered.slots : rendered.slots[i].ref = ForwardedRef}

\* C10: in every render exactly one resolved slot receives the forwarded ref,
\* the root slot; its render target is the caller's override for the slot
\* "root" when the caller supplies one, and FormControlRoot otherwise (an
\* override for another slot name changes nothing).
C10_RefSingularity ==
    /\ Cardinality(RefTargets) = 1
    /\ \A i \in RefTargets :
          /\ rendered.slots[i].name = "root"
          /\ rendered.slots[i].elementType =
               IF "slots.root" \in DOMAIN inProps THEN inProps["slots.root"]
               ELSE FormControlRoot

\* The caller overrides the root slot: the override is rendered with the ref.
C10_Witness ==
    /\ "slots.root" \in DOMAIN inProps
    /\ rendered.slots[1].elementType = Str("CustomRoot")
    /\ rendered.slots[1].ref = ForwardedRef

---------------------------------------------------------------------------
(* Properties of the context value *)

\* C13: after any setHelperText calls and re-renders the context value's
\* aria-describedby is id + "-helper-text" if and only if the helper text
\* element is not null, and undefined otherwise (as it is initially); htmlFor
\* is the ownerState's id and labelId is id + "-label", so the three name the
\* same id.
C13_ContextIds ==
    LET ctx == rendered.contextValue
        id == rendered.ownerState["id"]
    IN  /\ ctx["aria-describedby"] =
             IF helperText # Null THEN Str(id.s \o "-helper-text") ELSE Undefined
        /\ ctx["htmlFor"] = id
        /\ ctx["labelId"] = Str(id.s \o "-label")

\* A helper text element is set on a FormControl with the caller's id.
C13_Witness ==
    /\ helperText # Null
    /\ Get(inProps, "id") = Str("fc")
    /\ rendered.contextValue["aria-describedby"] = Str("fc-helper-text")
    /\ rendered.contextValue["labelId"] = Str("fc-label")

---------------------------------------------------------------------------
(* Properties of the child registration *)

\* Whether the step is a registerEffect call of instance i.
RegisterStep(i) ==
    /\ lastCall'[i].kind = "register"
    /\ lastCall'[i] # lastCall[i] \/ active'[i] # active[i]

\* C11 as stated: every registration made while an earlier registration of the
\* instance is still active emits the diagnostic, and a registration made
\* while none is active emits none.
C11_EveryConflictDiagnosed ==
    [][\A i \in Instances :
          RegisterStep(i) => (lastCall'[i].diagnostic <=> active[i] # {})]_vars

\* C12: a registerEffect call that finds the flag set emits the diagnostic and
\* nothing more: it does not throw, it leaves the flag set, it returns a
\* cleanup (the child is registered), and what the render produced (the root
\* slot's class names and props, the context value) and the helper text state
\* are as before the call.
C12_AdvisoryOnly ==
    [][\A i \in Instances :
          (RegisterStep(i) /\ registeredInput[i]) =>
              /\ lastCall'[i].diagnostic
              /\ ~lastCall'[i].threw
              /\ lastCall'[i].cleanup
              /\ registeredInput'[i]
              /\ active[i] \subseteq active'[i] /\ active'[i] # active[i]
              /\ rendered' = rendered
              /\ helperText' = helperText]_vars

\* A second child has registered on the first instance: the diagnostic was
\* emitted, both are registered, and the render is the one of the props.
C12_Witness ==
    /\ lastCall["first"].kind = "register"
    /\ lastCall["first"].diagnostic
    /\ Cardinality(active["first"]) = 2
    /\ "mt-2" \in Range(ClassList(rendered.slots[1].className))
    /\ rendered.contextValue["htmlFor"] = Str("fc")

\* C14: an instance's flag is true if and only if the most recent of its
\* registerEffect and cleanup calls was a registerEffect (false before any
\* call): every registerEffect sets it and every cleanup clears it whatever
\* else is still registered, and the calls of another instance do not touch it.
C14_FlagFollowsLastCall ==
    \A i \in Instances : registeredInput[i] <=> (lastCall[i].kind = "register")

\* On the first instance a cleanup ran while another child is still
\* registered, and the second instance's flag is still set.
C14_Witness ==
    /\ lastCall["first"].kind = "cleanup"
    /\ active["first"] # {}
    /\ ~registeredInput["first"]
    /\ lastCall["second"].kind = "register"
    /\ registeredInput["second"]

=============================================================================
